---- MODULE Spec2Model ----
(***************************************************************************)
(* A model of pypco's managed request pipeline (src/pypco/pco.py):         *)
(*   request_json -> request_response -> _do_url_managed_request           *)
(*     -> _do_ratelimit_managed_request -> _do_timeout_managed_request     *)
(*     -> _do_request (one exchange through requests.Session)              *)
(* Strings that the code inspects (URLs, the Retry-After header) are       *)
(* sequences of one-character strings, so that prefix tests, the slash     *)
(* regex and int() are computed and not assumed.                           *)
(*                                                                         *)
(* Spec    : one logical call through the pipeline, any Transport outcome. *)
(* SpecUrl : the URL clean-up of _do_url_managed_request on drawn inputs.  *)
(* SpecIter: one generator made by iterate, pulled by a consumer, its get   *)
(*           calls running through the same pipeline.                       *)
(* SpecIterLive: SpecIter with a consumer that keeps pulling.               *)
(* SpecThreads: two threads, each making one logical call on the same       *)
(*           client.                                                        *)
(***************************************************************************)
EXTENDS Integers, Sequences, FiniteSets, TLC

VARIABLES
    api_base,        \* self.api_base
    timeout_retries, \* self.timeout_retries
    pc,              \* where the logical call stands
    entry,           \* the entry point the caller used
    req,             \* the arguments handed to _do_ratelimit_managed_request
    timeout_count,   \* local of _do_timeout_managed_request
    history,         \* the outcomes of the _do_request invocations so far
    sleeps,          \* the arguments of the time.sleep calls so far
    clock,           \* seconds spent in time.sleep so far
    lower,           \* what _do_url_managed_request returned or raised
    result,          \* what the entry point returned or raised
    args,            \* what the caller passed to the entry point
    sent,            \* the request _do_request has in flight, if any
    open_handles,    \* upload files opened and not yet closed
    it_pc,           \* where the generator made by iterate stands
    iter,            \* iterate's url, offset, per_page and params
    response,        \* iterate's current page
    cur_index,       \* position in response['data'] of the record last yielded
    emitted,         \* the records yielded so far
    requests,        \* the get calls iterate has made so far
    served,          \* the pages those calls returned
    it_error,        \* the exception that ended the generator, if any
    extra_pulls,     \* next() calls made after the generator ended
    calls,           \* SpecThreads: the state of each thread's logical call
    session_uses,    \* SpecThreads: the exchanges made through self.session
    url_in,          \* SpecUrl: the url argument
    url_once,        \* SpecUrl: the cleaned url
    url_twice,       \* SpecUrl: the cleaned url, cleaned again
    url_pc           \* SpecUrl: how often the clean-up has been applied

vars == <<api_base, timeout_retries, pc, entry, req, timeout_count, history,
          sleeps, clock, lower, result, args, sent, open_handles,
          it_pc, iter, response, cur_index, emitted, requests, served,
          it_error, extra_pulls, calls, session_uses,
          url_in, url_once, url_twice, url_pc>>

configVars == <<api_base, timeout_retries>>
callVars == <<pc, entry, req, timeout_count, history, sleeps, clock, lower, result,
              args, sent, open_handles>>
urlVars == <<url_in, url_once, url_twice, url_pc>>
threadVars == <<calls, session_uses>>
iterVars == <<it_pc, iter, response, cur_index, emitted, requests, served,
              it_error, extra_pulls>>

----------------------------------------------------------------------------
(* Bounds of the model. *)

\* Transport attempts explored per logical call (the rate-limit loop is unbounded).
MaxAttempts == 4
\* Largest configured timeout_retries explored.
MaxRetries == 3
\* Longest url argument explored by SpecUrl.
MaxUrlLen == 5
\* Pages the service serves to one iteration: the last of them has no next.
MaxPages == 2
\* next() calls explored after the generator has ended.
MaxExtraPulls == 2
\* Transport attempts explored per thread in SpecThreads.
MaxThreadAttempts == 3

----------------------------------------------------------------------------
(* Strings. *)

StartsWith(s, p) == Len(s) >= Len(p) /\ SubSeq(s, 1, Len(p)) = p

\* 'https://api.planningcenteronline.com', shortened to scheme "s", host "h".
DefaultApiBase == <<"s", ":", "/", "/", "h">>

\* 'https://upload.planningcenteronline.com/v2/files', shortened likewise.
\* It is configured by the caller; this one has a doubled slash in its path.
upload_url == <<"s", ":", "/", "/", "u", "/", "/", "f">>

\* Number of consecutive "/" in s from position i on.
RECURSIVE SlashRun(_, _)
SlashRun(s, i) ==
    IF i > Len(s) \/ s[i] # "/" THEN 0 ELSE 1 + SlashRun(s, i + 1)

\* Mutant: the regex without its lookbehind, [/]{2,}.
RegexWithoutLookbehind(s, i) == SlashRun(s, i) >= 2

\* Whether the regex (?<!:)[/]{2,} matches at position i of s.
RegexMatchesAt(s, i) ==
    /\ SlashRun(s, i) >= 2
    /\ (i = 1 \/ s[i - 1] # ":")

\* re.subn(r'(?<!:)[/]{2,}', '/', s)[0], scanning s from position i: the
\* leftmost match is taken, it is greedy, and the scan resumes after it.
RECURSIVE SubnFrom(_, _)
SubnFrom(s, i) ==
    IF i > Len(s) THEN <<>>
    ELSE IF RegexMatchesAt(s, i)
         THEN <<"/">> \o SubnFrom(s, i + SlashRun(s, i))
         ELSE <<s[i]>> \o SubnFrom(s, i + 1)

CollapseSlashes(s) == SubnFrom(s, 1)

\* url if url.startswith(self.api_base) else f'{self.api_base}{url}'
PrefixBase(base, url) == IF StartsWith(url, base) THEN url ELSE base \o url

\* Mutant: the clean-up applied to uploads as well.
CleanUrlAlways(base, url, upload) == CollapseSlashes(PrefixBase(base, url))

\* The url that _do_url_managed_request hands on.
CleanUrl(base, url, upload) ==
    IF ~upload THEN CollapseSlashes(PrefixBase(base, url)) ELSE url

----------------------------------------------------------------------------
(* int() of a header value. *)

Digits == <<"0", "1", "2", "3", "4", "5", "6", "7", "8", "9">>

IsDigit(c) == \E d \in 1..10 : Digits[d] = c

DigitValue(c) == (CHOOSE d \in 1..10 : Digits[d] = c) - 1

AllDigits(s) == Len(s) >= 1 /\ \A i \in 1..Len(s) : IsDigit(s[i])

\* Whether int(s) returns (an optional sign, then digits) or raises ValueError.
IsIntLiteral(s) ==
    \/ AllDigits(s)
    \/ Len(s) >= 2 /\ s[1] \in {"-", "+"} /\ AllDigits(Tail(s))

RECURSIVE DigitsValue(_)
DigitsValue(s) ==
    IF s = <<>> THEN 0
    ELSE 10 * DigitsValue(SubSeq(s, 1, Len(s) - 1)) + DigitValue(s[Len(s)])

IntOf(s) ==
    IF s[1] = "-" THEN 0 - DigitsValue(Tail(s))
    ELSE IF s[1] = "+" THEN DigitsValue(Tail(s))
    ELSE DigitsValue(s)

----------------------------------------------------------------------------
(* Responses, failures and what Transport can do. *)

Statuses == {200, 301, 404, 429, 500}

\* Values of the Retry-After header of a 429 response.
RetryAfterValues == {<<"0">>, <<"2">>, <<"-", "1">>, <<"x">>}

\* Response bodies: one that parses as JSON, one that does not.
Bodies == {"{}", "<html>"}

Response(status, has_ra, ra, body) ==
    [kind |-> "response", status |-> status, has_retry_after |-> has_ra,
     retry_after |-> ra, body |-> body, msg |-> <<>>, value |-> <<>>]

\* An exception of class kind whose str() is msg.
Raised(kind, msg) ==
    [kind |-> kind, status |-> 0, has_retry_after |-> FALSE,
     retry_after |-> <<>>, body |-> "", msg |-> msg, value |-> <<>>]

None == Raised("None", <<>>)

\* What one session.request call can end in.
Outcomes ==
    {Raised("Timeout", <<"read timed out">>),
     Raised("ConnectionError", <<"connection refused">>)}
    \cup {Response(429, TRUE, ra, "") : ra \in RetryAfterValues}
    \cup {Response(429, FALSE, <<>>, "")}
    \cup {Response(s, FALSE, <<>>, b) : s \in Statuses \ {429}, b \in Bodies}

IsResponse(o) == o.kind = "response"

----------------------------------------------------------------------------
(* _do_timeout_managed_request *)

\* Mutant: a bare except, which retries every failure.
RetryableAnyFailure(o) == ~IsResponse(o)

\* except requests.exceptions.Timeout: the one failure the loop catches.
RetryableFailure(o) == o.kind = "Timeout"

\* Mutant: the ceiling tested with > instead of ==.
CeilingHitLate(count, retries) == count > retries

\* Mutant: the ceiling tested before the last permitted attempt.
CeilingHitEarly(count, retries) == count >= retries - 1

\* if timeout_count == self.timeout_retries
CeilingHit(count, retries) == count = retries

\* str() of the PCORequestTimeoutException: the url and the count.
TimeoutMessage(url, count) == <<"timed out after", url, count>>

\* Mutant: the count of an earlier invocation is carried on.
CountCarriedOn(previous) == previous

\* timeout_count = 0: every invocation of _do_timeout_managed_request
\* starts its own count, whatever an earlier invocation counted.
CountAtInvocation(previous) == 0

\* What the loop does with the outcome o of one _do_request, having counted
\* count timeouts before: retry, raise, or return the response.
do_timeout_managed_request(o, count, retries, url) ==
    IF IsResponse(o) THEN [act |-> "return", out |-> o, count |-> count]
    ELSE IF RetryableFailure(o)
         THEN IF CeilingHit(count + 1, retries)
              THEN [act |-> "raise",
                    out |-> Raised("PCORequestTimeoutException",
                                   TimeoutMessage(url, count + 1)),
                    count |-> count + 1]
              ELSE [act |-> "retry", out |-> None, count |-> count + 1]
         ELSE [act |-> "raise", out |-> o, count |-> count]

----------------------------------------------------------------------------
(* _do_ratelimit_managed_request *)

\* Mutant: server errors are taken for rate limiting too.
IsRateLimitedOrServerError(r) == r.status = 429 \/ r.status >= 500

\* if response.status_code == 429
IsRateLimited(r) == r.status = 429

\* Mutant: a fixed pause that ignores the header's value.
RetryAfterFixed(r) == 1

\* int(response.headers['Retry-After']), once it is known to evaluate.
RetryAfterSeconds(r) == IntOf(r.retry_after)

\* Mutant: a 429 without a usable Retry-After is retried at once.
do_ratelimit_defaulting(r) ==
    IF ~IsRateLimited(r) THEN [act |-> "return", out |-> r, secs |-> 0]
    ELSE IF ~r.has_retry_after \/ ~IsIntLiteral(r.retry_after)
         THEN [act |-> "sleep", out |-> None, secs |-> 0]
    ELSE IF RetryAfterSeconds(r) < 0
         THEN [act |-> "sleep", out |-> None, secs |-> 0]
    ELSE [act |-> "sleep", out |-> None, secs |-> RetryAfterSeconds(r)]

\* What the loop does with a response r of the timeout-managed request:
\* sleep and go round again, raise, or return r. The header lookup raises
\* KeyError, int() raises ValueError, and so does time.sleep below zero.
do_ratelimit_managed_request(r) ==
    IF ~IsRateLimited(r) THEN [act |-> "return", out |-> r, secs |-> 0]
    ELSE IF ~r.has_retry_after
         THEN [act |-> "raise", out |-> Raised("KeyError", <<"'Retry-After'">>),
               secs |-> 0]
    ELSE IF ~IsIntLiteral(r.retry_after)
         THEN [act |-> "raise",
               out |-> Raised("ValueError", <<"invalid literal for int()">>),
               secs |-> 0]
    ELSE IF RetryAfterSeconds(r) < 0
         THEN [act |-> "raise",
               out |-> Raised("ValueError", <<"sleep length must be non-negative">>),
               secs |-> 0]
    ELSE [act |-> "sleep", out |-> None, secs |-> RetryAfterSeconds(r)]

----------------------------------------------------------------------------
(* request_response, request_json and the entry points built on them *)

\* Mutant: only server errors raise.
raise_for_server_error(status) == 500 <= status /\ status < 600

\* response.raise_for_status() raises HTTPError for 4xx and 5xx.
raise_for_status(status) == 400 <= status /\ status < 600

\* except Exception as err: every exception class that reaches this handler
\* (requests', the builtins', PCORequestTimeoutException) derives from
\* Exception, so the handler takes all of them.
CaughtByExceptException(exc) == ~IsResponse(exc)

\* low is what _do_url_managed_request returned or raised.
request_response(low) ==
    IF CaughtByExceptException(low)
    THEN Raised("PCOUnexpectedRequestException", low.msg)
    ELSE IF raise_for_status(low.status)
         THEN [Raised("PCORequestException", <<"HTTPError", low.status>>)
                  EXCEPT !.status = low.status, !.body = low.body]
         ELSE low

----------------------------------------------------------------------------
(* The documents the service returns for a listing: resource objects, and
   pages of them. A page holds data, included, meta and links. *)

Ref(t, i) == [type |-> t, id |-> i]

\* A resource object of the page's top-level included.
Obj(t, i, name) == [type |-> t, id |-> i, attributes |-> name]

\* One relationship of an item: its data is null, one reference (a dict) or
\* a list of references.
Rel(name, shape, refs) == [name |-> name, shape |-> shape, refs |-> refs]

Item(t, i, has_rels, rels) ==
    [type |-> t, id |-> i, has_relationships |-> has_rels, relationships |-> rels]

ObjA1 == Obj("A", "1", "a1")
ObjA2 == Obj("A", "2", "a2")
ObjB1 == Obj("B", "1", "b1")

\* A second included object with the type and id of ObjA1.
ObjA1Twin == Obj("A", "1", "a1b")

\* An item without a relationships key.
ItemPlain == Item("T", "10", FALSE, <<>>)

\* owner: one reference; tags: a list of two.
ItemX ==
    Item("T", "11", TRUE,
         <<Rel("owner", "dict", <<Ref("A", "1")>>),
           Rel("tags", "list", <<Ref("B", "1"), Ref("A", "2")>>)>>)

\* tags: a list against the order of included; owner: null; extra: a
\* reference to an object that is not included.
ItemY ==
    Item("T", "12", TRUE,
         <<Rel("tags", "list", <<Ref("A", "2"), Ref("A", "1")>>),
           Rel("owner", "null", <<>>),
           Rel("extra", "dict", <<Ref("X", "9")>>)>>)

\* owner and editor: the same reference; tags: a list that names one
\* object twice and one that is not included.
ItemZ ==
    Item("T", "13", TRUE,
         <<Rel("owner", "dict", <<Ref("A", "1")>>),
           Rel("editor", "dict", <<Ref("A", "1")>>),
           Rel("tags", "list", <<Ref("B", "1"), Ref("B", "1"), Ref("X", "9")>>)>>)

DataChoices == {<<>>, <<ItemPlain>>, <<ItemX, ItemY>>, <<ItemZ>>}

\* Included with objects of distinct type and id, and with a repeated one.
IncludedDistinct == <<ObjA1, ObjB1, ObjA2>>

IncludedRepeated == <<ObjA1, ObjA1Twin, ObjB1>>

IncludedChoices == {<<>>, IncludedDistinct, IncludedRepeated}

\* Page-level meta as key-value pairs.
MetaChoices ==
    {<<>>, << <<"total_count", "3">>, <<"can_include", "c">>, <<"parent", "p">> >>}

LinksChoices == {<<"self">>, <<"self", "next">>}

Pages ==
    {[data |-> d, included |-> inc, meta |-> m, links |-> l] :
        d \in DataChoices, inc \in IncludedChoices, m \in MetaChoices,
        l \in LinksChoices}

\* The page's links carry a next entry.
HasNextLink(pg) == "next" \in {pg.links[i] : i \in 1..Len(pg.links)}

\* The JSON text of a document, as the service writes it.
RECURSIVE JoinTexts(_, _)
JoinTexts(texts, n) ==
    IF n = 0 THEN ""
    ELSE IF n = 1 THEN texts[1]
    ELSE JoinTexts(texts, n - 1) \o "," \o texts[n]

ListText(texts) == "[" \o JoinTexts(texts, Len(texts)) \o "]"

RefText(r) == "{type:" \o r.type \o ",id:" \o r.id \o "}"

ObjText(o) ==
    "{type:" \o o.type \o ",id:" \o o.id \o ",attributes:" \o o.attributes \o "}"

RelText(r) ==
    r.name \o ":{data:"
    \o (CASE r.shape = "null" -> "null"
          [] r.shape = "dict" -> RefText(r.refs[1])
          [] OTHER -> ListText([i \in 1..Len(r.refs) |-> RefText(r.refs[i])]))
    \o "}"

ItemText(it) ==
    "{type:" \o it.type \o ",id:" \o it.id
    \o (IF it.has_relationships
        THEN ",relationships:{"
             \o JoinTexts([i \in 1..Len(it.relationships) |->
                              RelText(it.relationships[i])],
                          Len(it.relationships))
             \o "}"
        ELSE "")
    \o "}"

PairText(kv) == kv[1] \o ":" \o kv[2]

PageText(pg) ==
    "{data:" \o ListText([i \in 1..Len(pg.data) |-> ItemText(pg.data[i])])
    \o ",included:"
    \o ListText([i \in 1..Len(pg.included) |-> ObjText(pg.included[i])])
    \o ",meta:{" \o JoinTexts([i \in 1..Len(pg.meta) |-> PairText(pg.meta[i])],
                              Len(pg.meta)) \o "}"
    \o ",links:{" \o JoinTexts(pg.links, Len(pg.links)) \o "}}"

PageBodies == {PageText(pg) : pg \in Pages}

\* Whether json.loads accepts the text.
IsJsonText(body) == body = "{}" \/ body \in PageBodies

\* The empty mapping.
EmptyDict == [k \in {} |-> <<>>]

\* The value json.loads returns: "{}" is the empty mapping, a page's text
\* is that page.
JsonValue(body) ==
    IF body = "{}" THEN EmptyDict
    ELSE CHOOSE pg \in Pages : PageText(pg) = body

\* Response.json()
json(r) ==
    IF IsJsonText(r.body)
    THEN [Raised("dict", <<>>) EXCEPT !.value = JsonValue(r.body)]
    ELSE Raised("JSONDecodeError", <<"Expecting value">>)

request_json(low) ==
    LET r == request_response(low)
    IN  IF IsResponse(r) THEN json(r) ELSE r

EntryPoints ==
    {"request_response", "request_json", "get", "post", "patch", "delete", "upload"}

\* The entry points that end in request_json; delete ends in request_response.
ReturnsJson(e) == e \in {"request_json", "get", "post", "patch", "upload"}

\* The HTTP methods an entry point can be called with.
MethodsOf(e) ==
    CASE e = "get" -> {"GET"}
      [] e = "post" -> {"POST"}
      [] e = "patch" -> {"PATCH"}
      [] e = "delete" -> {"DELETE"}
      [] e = "upload" -> {"POST"}
      [] OTHER -> {"GET", "PUT"}

EntryResult(e, low) == IF ReturnsJson(e) THEN request_json(low) ELSE request_response(low)

\* The url arguments explored by Spec.
CallUrls == {<<"/", "a">>, DefaultApiBase \o <<"/", "/", "a">>}

\* Query parameters (**params) as name-value pairs.
NoParams == <<>>

QueryQ == << <<"q", "1">> >>

\* Payload and query parameters a caller passes together.
Extras ==
    {[payload |-> "None", params |-> NoParams],
     [payload |-> "doc", params |-> QueryQ]}

\* Python truth of an upload argument: None and '' are false.
Truthy(u) == u \notin {"None", ""}

CallWith(e, m, u, pl, up, ps) ==
    [entry |-> e, method |-> m, url |-> u, payload |-> pl, upload |-> up,
     params |-> ps]

\* What a caller can pass to each entry point (lines 222, 264, 287, 310, 334,
\* 358, 460); upload passes self.upload_url and its file_path.
CallArgs ==
    {CallWith(e, m, u, x.payload, up, x.params) :
        e \in {"request_response", "request_json"}, m \in MethodsOf("request_json"),
        u \in CallUrls, x \in Extras, up \in {"None", "f"}}
    \cup {CallWith(e, "GET", u, "None", "None", ps) :
            e \in {"get"}, u \in CallUrls, ps \in {NoParams, QueryQ}}
    \cup {CallWith(e, "DELETE", u, "None", "None", ps) :
            e \in {"delete"}, u \in CallUrls, ps \in {NoParams, QueryQ}}
    \cup {CallWith(e, m, u, x.payload, "None", x.params) :
            e \in {"post"}, m \in MethodsOf("post"), u \in CallUrls, x \in Extras}
    \cup {CallWith(e, m, u, x.payload, "None", x.params) :
            e \in {"patch"}, m \in MethodsOf("patch"), u \in CallUrls, x \in Extras}
    \cup {CallWith(e, m, upload_url, "None", up, ps) :
            e \in {"upload"}, m \in MethodsOf("upload"), up \in {"", "f"},
            ps \in {NoParams, QueryQ}}

----------------------------------------------------------------------------
(* _do_request *)

\* self.timeout and self.upload_timeout, as the constructor defaults them.
timeout == 60

upload_timeout == 300

\* method, url and request_params as _do_request builds them (lines 80-96).
RequestParams(r) ==
    [method |-> r.method, url |-> r.url, params |-> r.params, json |-> r.payload,
     timeout |-> IF Truthy(r.upload) THEN upload_timeout ELSE timeout,
     files |-> IF Truthy(r.upload) THEN r.upload ELSE "None"]

NoRequest ==
    [method |-> "", url |-> <<>>, params |-> NoParams, json |-> "None",
     timeout |-> 0, files |-> "None"]

NoCall == CallWith("none", "", <<>>, "None", "None", NoParams)

NoArguments ==
    [method |-> "", url |-> <<>>, payload |-> "None", upload |-> "None",
     params |-> NoParams]

\* Mutant: the handle is closed after the request only when it returned.
HandlesAfterReturn(handles, upload, o) ==
    IF Truthy(upload) /\ IsResponse(o) THEN handles - 1 ELSE handles

\* finally: if upload: upload_fh.close(), whatever session.request ended in.
HandlesAfterRequest(handles, upload, o) ==
    IF Truthy(upload) THEN handles - 1 ELSE handles

\* Mutant: a retry that sends no payload again.
NextAttemptWithoutPayload(r) == [r EXCEPT !.payload = "None"]

\* The arguments the loops pass to the next invocation (lines 142 and 182):
\* their own method, url, payload, upload and params.
NextAttemptRequest(r) == r

----------------------------------------------------------------------------
(* The logical call as a state machine. *)

IdleCall ==
    /\ pc = "idle"
    /\ entry = "none"
    /\ args = NoCall
    /\ req = NoArguments
    /\ timeout_count = 0
    /\ history = <<>>
    /\ sleeps = <<>>
    /\ clock = 0
    /\ lower = None
    /\ result = None
    /\ sent = NoRequest
    /\ open_handles = 0

\* No generator exists.
NoIteration == [url |-> <<>>, offset |-> 0, per_page |-> 0, params |-> NoParams]

IdleIter ==
    /\ it_pc = "none"
    /\ iter = NoIteration
    /\ response = EmptyDict
    /\ cur_index = 0
    /\ emitted = <<>>
    /\ requests = <<>>
    /\ served = <<>>
    /\ it_error = None
    /\ extra_pulls = 0

\* The threads of SpecThreads.
Threads == {"t1", "t2"}

\* A thread that has made no call.
IdleThread ==
    [pc |-> "idle", timeout_count |-> 0, outs |-> <<>>, sleeps |-> <<>>,
     clock |-> 0, lower |-> None, result |-> None]

IdleThreads ==
    /\ calls = [t \in Threads |-> IdleThread]
    /\ session_uses = 0

Init ==
    /\ api_base = DefaultApiBase
    /\ timeout_retries \in 0..MaxRetries
    /\ IdleCall
    /\ IdleIter
    /\ IdleThreads
    /\ url_in = <<>>
    /\ url_once = <<>>
    /\ url_twice = <<>>
    /\ url_pc = 0

\* An entry point is invoked with arguments a: control runs through
\* request_json, request_response and _do_url_managed_request into the two
\* loops, up to the first _do_request.
StartCall(a) ==
    /\ entry' = a.entry
    /\ args' = a
    /\ req' = [method |-> a.method,
               url |-> CleanUrl(api_base, a.url, Truthy(a.upload)),
               payload |-> a.payload, upload |-> a.upload, params |-> a.params]
    /\ timeout_count' = 0
    /\ pc' = "request"
    /\ history' = <<>>
    /\ sleeps' = <<>>
    /\ clock' = 0
    /\ lower' = None
    /\ result' = None
    /\ sent' = NoRequest
    /\ UNCHANGED open_handles

Call ==
    /\ pc = "idle"
    /\ \E a \in CallArgs : StartCall(a)
    /\ UNCHANGED <<configVars, threadVars, urlVars, iterVars>>

\* The call ends: low leaves _do_url_managed_request and the entry point
\* turns it into what the caller sees.
Finish(low) ==
    /\ lower' = low
    /\ result' = EntryResult(entry, low)
    /\ pc' = "done"

\* What the two loops do with the outcome o of one _do_request, up to the
\* next _do_request, the next time.sleep or the end of the call.
HandleOutcome(o, exchanged) ==
    LET t == do_timeout_managed_request(o, timeout_count, timeout_retries,
                                        req.url)
        rl == do_ratelimit_managed_request(t.out)
    IN  /\ history' = Append(history, [out |-> o, at |-> clock, req |-> req,
                                       sent |-> RequestParams(req),
                                       exchanged |-> exchanged])
        /\ timeout_count' = t.count
        /\ CASE t.act = "retry" ->
                  /\ pc' = "request"
                  /\ req' = NextAttemptRequest(req)
                  /\ UNCHANGED <<sleeps, lower, result>>
             [] t.act = "raise" ->
                  /\ Finish(t.out)
                  /\ UNCHANGED <<sleeps, req>>
             [] t.act = "return" /\ rl.act = "sleep" ->
                  /\ sleeps' = Append(sleeps, rl.secs)
                  /\ pc' = "sleep"
                  /\ UNCHANGED <<lower, result, req>>
             [] t.act = "return" /\ rl.act # "sleep" ->
                  /\ Finish(rl.out)
                  /\ UNCHANGED <<sleeps, req>>

\* _do_request up to session.request: the request is built and, for an
\* upload, the file is opened. open() either returns a handle or raises
\* (the file is missing), and then _do_request raises before any exchange.
BeginRequest ==
    /\ pc = "request"
    /\ sent = NoRequest
    /\ Len(history) < MaxAttempts
    /\ \/ /\ sent' = RequestParams(req)
          /\ open_handles' = IF Truthy(req.upload) THEN open_handles + 1
                             ELSE open_handles
          /\ UNCHANGED <<pc, req, timeout_count, history, sleeps, lower, result>>
       \/ /\ Truthy(req.upload)
          /\ HandleOutcome(Raised("FileNotFoundError", <<"No such file">>), FALSE)
          /\ UNCHANGED <<sent, open_handles>>
    /\ UNCHANGED <<configVars, threadVars, entry, args, clock, urlVars, iterVars>>

\* session.request ends with outcome o, the finally clause closes the upload,
\* and the loops take the outcome from there.
RequestFrom(outs) ==
    /\ pc = "request"
    /\ sent # NoRequest
    /\ \E o \in outs :
          /\ open_handles' = HandlesAfterRequest(open_handles, req.upload, o)
          /\ HandleOutcome(o, TRUE)
    /\ sent' = NoRequest
    /\ UNCHANGED <<configVars, threadVars, entry, args, clock>>

DoRequest ==
    /\ RequestFrom(Outcomes)
    /\ UNCHANGED <<urlVars, iterVars>>

\* time.sleep returns; the rate-limit loop continues with a new
\* _do_timeout_managed_request, whose timeout_count starts at 0.
Wake ==
    /\ pc = "sleep"
    /\ clock' = clock + sleeps[Len(sleeps)]
    /\ timeout_count' = CountAtInvocation(timeout_count)
    /\ req' = NextAttemptRequest(req)
    /\ pc' = "request"
    /\ UNCHANGED <<configVars, threadVars, entry, args, history, sleeps, lower, result,
                   sent, open_handles, urlVars, iterVars>>

Next == Call \/ BeginRequest \/ DoRequest \/ Wake

Spec == Init /\ [][Next]_vars

----------------------------------------------------------------------------
(* The URL clean-up on its own: SpecUrl draws a base and a url argument and
   applies lines 214-216 of _do_url_managed_request once, then once more to
   its own output. *)

UrlChars == {"/", ":", "a", "?"}

UrlTails == UNION {[1..k -> UrlChars] : k \in 0..MaxUrlLen}

\* Configured bases: the default, the default with a trailing slash, and one
\* whose path has a doubled slash.
Bases ==
    {DefaultApiBase,
     DefaultApiBase \o <<"/">>,
     DefaultApiBase \o <<"/", "/", "v">>}

InitUrl ==
    /\ api_base \in Bases
    /\ timeout_retries = 3
    /\ IdleCall
    /\ IdleIter
    /\ IdleThreads
    /\ url_in \in UrlTails \cup {api_base \o t : t \in UrlTails}
    /\ url_once = <<>>
    /\ url_twice = <<>>
    /\ url_pc = 0

CleanOnce ==
    /\ url_pc = 0
    /\ url_once' = CleanUrl(api_base, url_in, FALSE)
    /\ url_pc' = 1
    /\ UNCHANGED <<api_base, timeout_retries, callVars, iterVars, threadVars, url_in, url_twice>>

CleanAgain ==
    /\ url_pc = 1
    /\ url_twice' = CleanUrl(api_base, url_once, FALSE)
    /\ url_pc' = 2
    /\ UNCHANGED <<api_base, timeout_retries, callVars, iterVars, threadVars, url_in, url_once>>

NextUrl == CleanOnce \/ CleanAgain

SpecUrl == InitUrl /\ [][NextUrl]_vars

----------------------------------------------------------------------------
(* iterate: the generator, the consumer that pulls from it, and the service
   that answers its get calls. *)

\* Mutant: the inner loop stops at the first match.
FirstMatchOf(included, ref) ==
    LET found == SelectSeq(included,
                           LAMBDA inc : inc.type = ref.type /\ inc.id = ref.id)
    IN  IF found = <<>> THEN <<>> ELSE <<found[1]>>

\* Mutant: a reference matches on id alone.
MatchesOnId(included, ref) ==
    SelectSeq(included, LAMBDA inc : inc.id = ref.id)

\* for include in response['included']: the objects with the reference's
\* type and id, in the order of included.
MatchesOf(included, ref) ==
    SelectSeq(included, LAMBDA inc : inc.type = ref.type /\ inc.id = ref.id)

\* for relationship in relationships, over the first n references.
RECURSIVE ListMatches(_, _, _)
ListMatches(included, refs, n) ==
    IF n = 0 THEN <<>>
    ELSE ListMatches(included, refs, n - 1) \o MatchesOf(included, refs[n])

\* What one relationship appends: None is skipped, a dict is one reference,
\* a list is walked.
RelationshipMatches(included, rel) ==
    CASE rel.shape = "dict" -> MatchesOf(included, rel.refs[1])
      [] rel.shape = "list" -> ListMatches(included, rel.refs, Len(rel.refs))
      [] OTHER -> <<>>

\* for key in cur['relationships'], over the first n relationships.
RECURSIVE RecordIncluded(_, _, _)
RecordIncluded(included, rels, n) ==
    IF n = 0 THEN <<>>
    ELSE RecordIncluded(included, rels, n - 1)
         \o RelationshipMatches(included, rels[n])

\* record['meta'] starts as {} and the two statements under the tests for
\* can_include and parent are annotations (target: expression), which store
\* nothing.
RecordMeta(meta) == <<>>

\* The record yielded for item cur of page pg.
BuildRecord(pg, cur) ==
    [data |-> cur,
     included |-> IF cur.has_relationships
                  THEN RecordIncluded(pg.included, cur.relationships,
                                      Len(cur.relationships))
                  ELSE <<>>,
     meta |-> RecordMeta(pg.meta)]

\* Mutant: the loop goes on while pages carry data.
MorePagesWhileData(pg) == pg.data # <<>>

\* Mutant: an empty page ends the loop whatever its links say.
MorePagesUnlessEmpty(pg) ==
    pg.data # <<>> /\ \E i \in 1..Len(pg.links) : pg.links[i] = "next"

\* Mutant: the loop never breaks.
MorePagesAlways(pg) == TRUE

\* 'next' in response['links']
MorePages(pg) == \E i \in 1..Len(pg.links) : pg.links[i] = "next"

\* Mutant: the for loop leaves before the last item.
ItemsLeftButLast(pg, k) == k + 1 < Len(pg.data)

\* for cur in response['data']: there is an item after the k-th.
ItemsLeft(pg, k) == k < Len(pg.data)

\* Mutant: the offset moves on by one item.
NextOffsetByOne(it) == it.offset + 1

\* offset += per_page
NextOffset(it) == it.offset + it.per_page

\* Mutant: the generator wraps what get raised.
GeneratorErrorWrapped(exc) == Raised("RuntimeError", exc.msg)

\* iterate has no try: what get raises leaves the generator as it is.
GeneratorError(exc) == exc

\* The arguments iterate is called with: its defaults, and an offset, a page
\* size and a query parameter of the caller's.
IterArgs ==
    {[url |-> <<"/", "a">>, offset |-> 0, per_page |-> 25, params |-> NoParams],
     [url |-> <<"/", "a">>, offset |-> 3, per_page |-> 2, params |-> QueryQ]}

\* self.get(url, offset=offset, per_page=per_page, **params)
GetCall(it) ==
    CallWith("get", "GET", it.url, "None", "None",
             << <<"offset", it.offset>>, <<"per_page", it.per_page>> >>
             \o it.params)

\* The pages the service serves to an iteration: with included objects and
\* meta entries, or with neither; the item with repeated references comes
\* with the repeated included objects.
IterPages ==
    {pg \in Pages :
        /\ (pg.included = <<>>) = (pg.meta = <<>>)
        /\ (pg.data = <<ItemZ>>) = (pg.included = IncludedRepeated)}

\* What the service can answer to the n-th get of an iteration: failures, or
\* a page; the last page it is willing to serve has no next.
IterOutcomes(n) ==
    {Raised("Timeout", <<"read timed out">>),
     Raised("ConnectionError", <<"connection refused">>),
     Response(429, FALSE, <<>>, ""),
     Response(404, FALSE, <<>>, "{}"),
     Response(200, FALSE, <<>>, "<html>"),
     Response(200, FALSE, <<>>, "{}")}
    \cup {Response(200, FALSE, <<>>, PageText(pg)) :
            pg \in {p \in IterPages : n < MaxPages \/ ~HasNextLink(p)}}

InitIter ==
    /\ api_base = DefaultApiBase
    /\ timeout_retries = 2
    /\ IdleCall
    /\ it_pc = "created"
    /\ iter \in IterArgs
    /\ response = EmptyDict
    /\ cur_index = 0
    /\ emitted = <<>>
    /\ requests = <<>>
    /\ served = <<>>
    /\ it_error = None
    /\ extra_pulls = 0
    /\ IdleThreads
    /\ url_in = <<>>
    /\ url_once = <<>>
    /\ url_twice = <<>>
    /\ url_pc = 0

\* The top of the while loop with locals it: get is called and runs up to
\* its first _do_request. The generator is followed for one request more
\* than the service has pages.
Fetch(it) ==
    /\ Len(requests) <= MaxPages
    /\ iter' = it
    /\ requests' = Append(requests, it)
    /\ StartCall(GetCall(it))
    /\ it_pc' = "fetching"

\* The generator runs on after item k of page pg (the page_no-th page), up
\* to its next yield, its next get or its end.
RunOn(pg, k, page_no) ==
    IF ItemsLeft(pg, k)
    THEN /\ it_pc' = "yielded"
         /\ cur_index' = k + 1
         /\ emitted' = Append(emitted,
                              [record |-> BuildRecord(pg, pg.data[k + 1]),
                               page |-> page_no, item |-> k + 1])
         /\ UNCHANGED <<iter, requests, it_error, callVars>>
    ELSE LET it == [iter EXCEPT !.offset = NextOffset(iter)]
         IN  IF MorePages(pg)
             THEN /\ Fetch(it)
                  /\ UNCHANGED <<cur_index, emitted, it_error>>
             ELSE /\ it_pc' = "exhausted"
                  /\ iter' = it
                  /\ UNCHANGED <<cur_index, emitted, requests, it_error,
                                 callVars>>

\* The consumer calls next() on a generator that has not ended.
IterPull ==
    /\ \/ /\ it_pc = "created"
          /\ Fetch(iter)
          /\ UNCHANGED <<cur_index, emitted, it_error>>
       \/ /\ it_pc = "yielded"
          /\ RunOn(response, cur_index, Len(served))
    /\ UNCHANGED <<configVars, threadVars, response, served, extra_pulls, urlVars>>

\* session.request of the get in flight ends.
IterRequest ==
    /\ it_pc = "fetching"
    /\ RequestFrom(IterOutcomes(Len(requests)))
    /\ UNCHANGED <<urlVars, iterVars>>

\* get returns to the generator or raises through it.
IterReceive ==
    /\ it_pc = "fetching"
    /\ pc = "done"
    /\ IF result.kind # "dict"
       THEN /\ it_pc' = "failed"
            /\ it_error' = GeneratorError(result)
            /\ UNCHANGED <<iter, response, cur_index, emitted, requests,
                           served, callVars>>
       ELSE IF "data" \notin DOMAIN result.value
       THEN /\ it_pc' = "failed"
            /\ it_error' = Raised("KeyError", <<"data">>)
            /\ response' = result.value
            /\ UNCHANGED <<iter, cur_index, emitted, requests, served,
                           callVars>>
       ELSE /\ response' = result.value
            /\ served' = Append(served, result.value)
            /\ RunOn(result.value, 0, Len(served) + 1)
    /\ UNCHANGED <<configVars, threadVars, extra_pulls, urlVars>>

\* next() on a generator that has ended raises StopIteration and runs none
\* of its code.
IterPullAfterEnd ==
    /\ it_pc \in {"exhausted", "failed"}
    /\ extra_pulls < MaxExtraPulls
    /\ extra_pulls' = extra_pulls + 1
    /\ UNCHANGED <<configVars, threadVars, callVars, urlVars, it_pc, iter, response,
                   cur_index, emitted, requests, served, it_error>>

NextIter ==
    IterPull \/ BeginRequest \/ IterRequest \/ IterReceive \/ IterPullAfterEnd

SpecIter == InitIter /\ [][NextIter]_vars

\* The consumer keeps pulling and the calls it starts keep running.
SpecIterLive == SpecIter /\ WF_vars(NextIter)

----------------------------------------------------------------------------
(* Two threads on one client. Each makes one logical call,
   request_response of a GET; the client's attributes and self.session are
   all the threads share. *)

\* What one session.request call of a thread can end in.
ThreadOutcomes ==
    {Raised("Timeout", <<"read timed out">>),
     Raised("ConnectionError", <<"connection refused">>),
     Response(429, TRUE, <<"2">>, ""),
     Response(429, FALSE, <<>>, ""),
     Response(200, FALSE, <<>>, "{}"),
     Response(500, FALSE, <<>>, "<html>")}

\* The url every thread asks for, as _do_url_managed_request hands it on.
ThreadUrl == CleanUrl(api_base, <<"/", "a">>, FALSE)

\* timeout_count is a local of the running _do_timeout_managed_request: the
\* count thread t tests is its own.
CounterSeenBy(cs, t) == cs[t].timeout_count

\* Mutant: a sleep holds up every thread.
SleepSuspendsAll(sleeper, t) == TRUE

\* time.sleep suspends the calling thread only.
SleepSuspends(sleeper, t) == t = sleeper

InitThreads ==
    /\ api_base = DefaultApiBase
    /\ timeout_retries = 2
    /\ IdleCall
    /\ IdleIter
    /\ IdleThreads
    /\ url_in = <<>>
    /\ url_once = <<>>
    /\ url_twice = <<>>
    /\ url_pc = 0

\* A thread calls request_response, which runs up to its first _do_request.
ThreadCall ==
    /\ \E t \in Threads :
          /\ calls[t].pc = "idle"
          /\ calls' = [calls EXCEPT ![t].pc = "request"]
    /\ UNCHANGED <<configVars, callVars, iterVars, urlVars, session_uses>>

\* One _do_request of thread t ends with outcome o, and the thread's two
\* loops run on to the next _do_request, the next time.sleep or the end of
\* the call.
ThreadOutcome(t, o) ==
    LET c == calls[t]
        tm == do_timeout_managed_request(o, CounterSeenBy(calls, t),
                                         timeout_retries, ThreadUrl)
        rl == do_ratelimit_managed_request(tm.out)
        seen == [c EXCEPT !.outs = Append(c.outs, o), !.timeout_count = tm.count]
    IN  calls' =
          [calls EXCEPT ![t] =
             CASE tm.act = "retry" -> seen
               [] tm.act = "raise" ->
                    [seen EXCEPT !.pc = "done", !.lower = tm.out,
                                 !.result = request_response(tm.out)]
               [] tm.act = "return" /\ rl.act = "sleep" ->
                    [seen EXCEPT !.pc = "sleep",
                                 !.sleeps = Append(c.sleeps, rl.secs)]
               [] tm.act = "return" /\ rl.act # "sleep" ->
                    [seen EXCEPT !.pc = "done", !.lower = rl.out,
                                 !.result = request_response(rl.out)]]

ThreadRequest ==
    /\ \E t \in Threads :
          /\ calls[t].pc = "request"
          /\ Len(calls[t].outs) < MaxThreadAttempts
          /\ \E o \in ThreadOutcomes : ThreadOutcome(t, o)
    /\ session_uses' = session_uses + 1
    /\ UNCHANGED <<configVars, callVars, iterVars, urlVars>>

\* The time.sleep of a thread returns: the seconds have passed for every
\* thread the sleep suspended, and the sleeper starts a new
\* _do_timeout_managed_request.
ThreadWake ==
    /\ \E s \in Threads :
          /\ calls[s].pc = "sleep"
          /\ calls' =
               [t \in Threads |->
                  LET waited ==
                        IF SleepSuspends(s, t)
                        THEN calls[t].clock + calls[s].sleeps[Len(calls[s].sleeps)]
                        ELSE calls[t].clock
                  IN  IF t = s
                      THEN [calls[t] EXCEPT
                              !.pc = "request",
                              !.timeout_count =
                                  CountAtInvocation(calls[t].timeout_count),
                              !.clock = waited]
                      ELSE [calls[t] EXCEPT !.clock = waited]]
    /\ UNCHANGED <<configVars, callVars, iterVars, urlVars, session_uses>>

NextThreads == ThreadCall \/ ThreadRequest \/ ThreadWake

SpecThreads == InitThreads /\ [][NextThreads]_vars

----------------------------------------------------------------------------
(* Properties of the logical call (Spec). *)

Out(i) == history[i].out

Is429(o) == IsResponse(o) /\ o.status = 429

IsTimeout(o) == o.kind = "Timeout"

\* The number of Timeout outcomes that end the history: the timeouts of the
\* _do_timeout_managed_request invocation that made the last attempt.
TrailingTimeouts ==
    LET stops == {i \in 1..Len(history) : ~IsTimeout(Out(i))}
        last == IF stops = {} THEN 0 ELSE CHOOSE i \in stops : \A j \in stops : j <= i
    IN  Len(history) - last

\* Retry-After of a 429 response as a number, -1 where int() has none.
HeaderSeconds(o) ==
    IF o.has_retry_after /\ IsIntLiteral(o.retry_after) THEN IntOf(o.retry_after)
    ELSE 0 - 1

\* The Retry-After values of the 429 responses in the history, in order.
RECURSIVE HeaderSecondsUpTo(_)
HeaderSecondsUpTo(n) ==
    IF n = 0 THEN <<>>
    ELSE IF Is429(Out(n)) THEN Append(HeaderSecondsUpTo(n - 1), HeaderSeconds(Out(n)))
    ELSE HeaderSecondsUpTo(n - 1)

\* C1: with timeout_retries = N >= 1, an invocation of
\* _do_timeout_managed_request whose attempts time out N times in a row raises
\* PCORequestTimeoutException (carrying the url and the count N) after exactly
\* N attempts; an invocation never makes an (N+1)-th timed-out attempt, and
\* the exception is raised in no other situation.
C1_TimeoutCeiling ==
    timeout_retries >= 1 =>
        /\ TrailingTimeouts <= timeout_retries
        /\ TrailingTimeouts = timeout_retries =>
              /\ pc = "done"
              /\ lower = Raised("PCORequestTimeoutException",
                                TimeoutMessage(req.url, timeout_retries))
        /\ lower.kind = "PCORequestTimeoutException" =>
              TrailingTimeouts = timeout_retries

C1_Witness ==
    /\ timeout_retries = MaxRetries
    /\ Len(history) = MaxRetries
    /\ TrailingTimeouts = MaxRetries
    /\ lower.kind = "PCORequestTimeoutException"

\* C2: with timeout_retries = N >= 1, after N-1 timeouts the N-th attempt is
\* still made, and if it returns a response with a status below 400 then
\* request_response returns that response after exactly N attempts.
C2_LastAttemptSucceeds ==
    timeout_retries >= 1 =>
        /\ ( /\ pc # "idle"
             /\ Len(history) = timeout_retries - 1
             /\ \A i \in 1..Len(history) : IsTimeout(Out(i)) )
           => pc = "request"
        /\ ( /\ Len(history) = timeout_retries
             /\ \A i \in 1..(timeout_retries - 1) : IsTimeout(Out(i))
             /\ IsResponse(Out(timeout_retries))
             /\ Out(timeout_retries).status < 400 )
           => /\ pc = "done"
              /\ timeout_count = timeout_retries - 1
              /\ lower = Out(timeout_retries)
              /\ ~ReturnsJson(entry) => result = Out(timeout_retries)

C2_Witness ==
    /\ timeout_retries = MaxRetries
    /\ Len(history) = MaxRetries
    /\ TrailingTimeouts = 0
    /\ \A i \in 1..(MaxRetries - 1) : IsTimeout(Out(i))
    /\ entry = "request_response"
    /\ result.kind = "response"
    /\ result.status = 200

\* C3: when the timeout ceiling is hit, the caller of the entry point receives
\* the PCORequestTimeoutException itself, unchanged.
C3_TimeoutPassedThrough ==
    (pc = "done" /\ lower.kind = "PCORequestTimeoutException") => result = lower

\* C4: the rate-limit loop sleeps once per 429 response, for the number of
\* seconds in that response's Retry-After header, and the sleep is over before
\* the next attempt starts; nothing else in the pipeline takes time (a retry
\* after a timeout is immediate); a 429 with a usable header never ends the
\* call, however many came before; and what the loop returns is the first
\* response that is not a 429.
C4_SleepPerRateLimit ==
    /\ \A i \in 2..Len(history) :
          history[i].at = history[i - 1].at
                          + (IF Is429(Out(i - 1)) THEN HeaderSeconds(Out(i - 1)) ELSE 0)
    /\ pc = "sleep" =>
          /\ Is429(Out(Len(history)))
          /\ sleeps = HeaderSecondsUpTo(Len(history))
          /\ clock = history[Len(history)].at
    /\ ( /\ Len(history) > 0
         /\ Is429(Out(Len(history)))
         /\ HeaderSeconds(Out(Len(history))) >= 0 )
       => pc \in {"sleep", "request"}
    /\ (pc = "done" /\ IsResponse(lower)) =>
          /\ lower = Out(Len(history))
          /\ ~Is429(lower)
          /\ \A i \in 1..(Len(history) - 1) : IsTimeout(Out(i)) \/ Is429(Out(i))
          /\ sleeps = HeaderSecondsUpTo(Len(history))

C4_Witness ==
    /\ pc = "done"
    /\ Len(history) = 4
    /\ \A i \in 1..3 : Is429(Out(i))
    /\ sleeps = <<2, 0, 2>>
    /\ clock = 4
    /\ history[4].at = 4
    /\ lower.status = 200

\* C5: every 429 response is recovered locally: the rate-limit loop goes
\* round again, so no call ends on a 429 response.
C5_RateLimitNeverSurfaces ==
    (Len(history) > 0 /\ Is429(Out(Len(history)))) => pc # "done"

\* C6: a final response with a 4xx or 5xx status other than 429 makes the
\* entry point raise PCORequestException carrying that status, a message and
\* the response's body; with a status below 400 request_response returns the
\* response itself.
C6_StatusClassification ==
    (pc = "done" /\ IsResponse(lower)) =>
        /\ (400 <= lower.status /\ lower.status < 600) =>
              /\ result.kind = "PCORequestException"
              /\ result.status = lower.status
              /\ result.body = lower.body
              /\ result.msg # <<>>
        /\ (lower.status < 400 /\ ~ReturnsJson(entry)) => result = lower

C6_Witness ==
    /\ pc = "done"
    /\ lower.status = 404
    /\ lower.body = "<html>"
    /\ result.kind = "PCORequestException"
    /\ result.status = 404

\* C7: a Transport failure other than a timeout is never followed by another
\* attempt, however many timeouts came before it, and the caller receives
\* PCOUnexpectedRequestException with the failure's own message.
C7_NetworkErrorNotRetried ==
    /\ \A i \in 1..(Len(history) - 1) : Out(i).kind # "ConnectionError"
    /\ (Len(history) > 0 /\ Out(Len(history)).kind = "ConnectionError") =>
          /\ pc = "done"
          /\ result = Raised("PCOUnexpectedRequestException", Out(Len(history)).msg)

C7_Witness ==
    /\ Len(history) = 3
    /\ IsTimeout(Out(1))
    /\ IsTimeout(Out(2))
    /\ Out(3).kind = "ConnectionError"
    /\ result.kind = "PCOUnexpectedRequestException"

\* C8: when the final response has a status below 400 and a body that is not
\* JSON, the entry points that return JSON raise PCOUnexpectedRequestException.
C8_MalformedBodyIsUnexpected ==
    ( /\ pc = "done"
      /\ ReturnsJson(entry)
      /\ IsResponse(lower)
      /\ lower.status < 400
      /\ ~IsJsonText(lower.body) )
    => result.kind = "PCOUnexpectedRequestException"

----------------------------------------------------------------------------
(* Properties of the URL clean-up (SpecUrl). *)

\* C9: the clean-up is idempotent for every url argument and every base, and
\* a url that already starts with the base gets no prefix.
C9_CleanUrlIdempotent ==
    /\ url_pc = 2 => url_twice = url_once
    /\ (url_pc >= 1 /\ StartsWith(url_in, api_base)) =>
          url_once = CollapseSlashes(url_in)

\* Whether position i of s survives the collapsing: every character that is
\* not a slash, the first slash of every run, and the second slash of a run
\* that directly follows a colon.
Kept(s, i) ==
    \/ s[i] # "/"
    \/ i = 1
    \/ s[i - 1] # "/"
    \/ (i >= 3 /\ s[i - 1] = "/" /\ s[i - 2] = ":")

RECURSIVE KeptUpTo(_, _)
KeptUpTo(s, n) ==
    IF n = 0 THEN <<>>
    ELSE IF Kept(s, n) THEN Append(KeptUpTo(s, n - 1), s[n])
    ELSE KeptUpTo(s, n - 1)

QueryOf(s) ==
    LET marks == {i \in 1..Len(s) : s[i] = "?"}
        first == CHOOSE i \in marks : \A j \in marks : i <= j
    IN  IF marks = {} THEN <<>> ELSE SubSeq(s, first + 1, Len(s))

\* C11: the clean-up leaves the query string alone: what follows the first
\* "?" of the url argument is what follows the first "?" of the cleaned url,
\* doubled slashes included.
C11_QueryStringUntouched ==
    (url_pc >= 1 /\ \E i \in 1..Len(url_in) : url_in[i] = "?") =>
        QueryOf(url_once) = QueryOf(url_in)

\* C19: whatever timeout_retries is configured, an invocation of
\* _do_timeout_managed_request sees at most timeout_retries timeouts.
C19_HardCeiling == TrailingTimeouts <= timeout_retries

----------------------------------------------------------------------------
(* Properties of what reaches Transport (Spec). *)

\* No two adjacent slashes in s other than directly after a colon.
SlashesCollapsed(s) ==
    \A i \in 1..(Len(s) - 1) :
        (s[i] = "/" /\ s[i + 1] = "/") => (i > 1 /\ s[i - 1] = ":")

\* C12: every _do_request of an upload (the upload entry point with a file
\* path) gets the configured upload url as it is, the method POST and the
\* upload timeout; every _do_request of a call without an upload path gets a
\* url that starts with the base and has its slashes collapsed, and the plain
\* timeout.
C12_UploadUrlVerbatim ==
    \A i \in 1..Len(history) :
        /\ (entry = "upload" /\ Truthy(args.upload)) =>
              /\ history[i].sent.url = upload_url
              /\ history[i].sent.method = "POST"
              /\ history[i].sent.timeout = upload_timeout
              /\ history[i].sent.files = args.upload
        /\ ~Truthy(args.upload) =>
              /\ StartsWith(history[i].sent.url, api_base)
              /\ SlashesCollapsed(history[i].sent.url)
              /\ history[i].sent.timeout = timeout
              /\ history[i].sent.files = "None"

C12_Witness ==
    /\ entry = "upload"
    /\ args.upload = "f"
    /\ Len(history) = 2
    /\ history[2].exchanged
    /\ history[2].sent.url = upload_url
    /\ ~SlashesCollapsed(history[2].sent.url)

\* C13: an upload's file handle is open only while session.request runs: at
\* most one handle is open, and none is open when no request is in flight
\* (control is in a loop, in time.sleep, or back at the caller).
C13_HandleScopedToRequest ==
    /\ open_handles \in {0, 1}
    /\ open_handles = 1 => (pc = "request" /\ sent # NoRequest /\ Truthy(req.upload))
    /\ sent = NoRequest => open_handles = 0

C13_Witness ==
    /\ Truthy(args.upload)
    /\ pc = "done"
    /\ Len(history) = 4
    /\ IsTimeout(Out(1))
    /\ Is429(Out(2))
    /\ IsTimeout(Out(3))
    /\ Out(4).kind = "ConnectionError"
    /\ \A i \in 1..4 : history[i].exchanged
    /\ open_handles = 0

\* C18: every _do_request of one logical call is made with the same
\* arguments: the caller's method, payload, upload path and query parameters,
\* and the url as _do_url_managed_request left it once, before the loops.
C18_SameRequestEveryAttempt ==
    /\ \A i \in 1..Len(history) :
          /\ history[i].req = history[1].req
          /\ history[i].sent = history[1].sent
          /\ history[i].sent.method = args.method
          /\ history[i].sent.json = args.payload
          /\ history[i].sent.params = args.params
          /\ history[i].req.upload = args.upload
          /\ history[i].sent.url =
                (IF Truthy(args.upload) THEN args.url
                 ELSE CollapseSlashes(PrefixBase(api_base, args.url)))
    /\ pc # "idle" => req.payload = args.payload

C18_Witness ==
    /\ Len(history) = 4
    /\ IsTimeout(Out(1))
    /\ Is429(Out(2))
    /\ IsTimeout(Out(3))
    /\ args.payload = "doc"
    /\ args.params = QueryQ
    /\ history[4].sent.json = "doc"

----------------------------------------------------------------------------
(* Properties of iterate (SpecIter). *)

\* The page and the item an emitted record was built from.
PageOf(e) == served[e.page]

ItemOf(e) == served[e.page].data[e.item]

\* The matches of item cur on page pg: relationship r (data not null), its
\* k-th reference, and the n-th included object, equal in type and id.
MatchTriples(pg, cur) ==
    IF ~cur.has_relationships THEN {}
    ELSE UNION {UNION {{<<r, k, n>> :
                          n \in {m \in 1..Len(pg.included) :
                                   /\ pg.included[m].type
                                        = cur.relationships[r].refs[k].type
                                   /\ pg.included[m].id
                                        = cur.relationships[r].refs[k].id}} :
                       k \in 1..Len(cur.relationships[r].refs)} :
                r \in {q \in 1..Len(cur.relationships) :
                         cur.relationships[q].shape # "null"}}

\* Relationship order, then reference order, then order of included.
Before(t, u) ==
    \/ t[1] < u[1]
    \/ t[1] = u[1] /\ t[2] < u[2]
    \/ t[1] = u[1] /\ t[2] = u[2] /\ t[3] < u[3]

Rank(T, t) == Cardinality({u \in T : Before(u, t)}) + 1

\* C15: the included list of every emitted record holds exactly the objects
\* of its page's included that equal, in type and id, a reference of one of
\* the item's relationships (one reference or a list; null data adds
\* nothing), in relationship order and inside a list in reference order;
\* what only other items reference is absent.
C15_IncludedIsTheMatches ==
    \A i \in 1..Len(emitted) :
        LET inc == emitted[i].record.included
            pg == PageOf(emitted[i])
            T == MatchTriples(pg, ItemOf(emitted[i]))
        IN  /\ emitted[i].record.data = ItemOf(emitted[i])
            /\ Len(inc) = Cardinality(T)
            /\ \A t \in T : inc[Rank(T, t)] = pg.included[t[3]]

\* Two records of one page: the first takes all three included objects in
\* relationship order, the second takes two of them against the order of
\* included, skips its null relationship and its unmatched reference, and
\* lacks the object only the first item references.
C15_Witness ==
    \E i \in 1..Len(emitted) :
        /\ i > 1
        /\ emitted[i].page = emitted[i - 1].page
        /\ emitted[i - 1].record.included = <<ObjA1, ObjB1, ObjA2>>
        /\ emitted[i].record.included = <<ObjA2, ObjA1>>
        /\ \E r \in 1..Len(emitted[i].record.data.relationships) :
              emitted[i].record.data.relationships[r].shape = "null"

\* The number of items on the first n pages served.
RECURSIVE ItemsUpTo(_)
ItemsUpTo(n) == IF n = 0 THEN 0 ELSE ItemsUpTo(n - 1) + Len(served[n].data)

\* C14: when pages 1..k-1 carry next and page k does not, the generator
\* issues exactly k gets, yields one record per item in page order and
\* inside a page in item order, then stops: a request follows a page only if
\* that page carried next, so there is never a (k+1)-th request.
C14_OneRequestPerPage ==
    /\ Len(served) <= Len(requests)
    /\ Len(requests) <= Len(served) + 1
    /\ \A j \in 2..Len(requests) : HasNextLink(served[j - 1])
    /\ Len(emitted) <= ItemsUpTo(Len(served))
    /\ \A i \in 1..Len(emitted) :
          /\ emitted[i].page \in 1..Len(served)
          /\ emitted[i].item \in 1..Len(PageOf(emitted[i]).data)
          /\ i = ItemsUpTo(emitted[i].page - 1) + emitted[i].item
          /\ emitted[i].record.data = ItemOf(emitted[i])
    /\ it_pc = "exhausted" =>
          /\ Len(served) >= 1
          /\ Len(requests) = Len(served)
          /\ ~HasNextLink(served[Len(served)])
          /\ Len(emitted) = ItemsUpTo(Len(served))

\* k = 2: a first page with next, a second without, both with items, all
\* of them yielded, and the generator has stopped after two gets.
C14_Witness ==
    /\ it_pc = "exhausted"
    /\ Len(served) = 2
    /\ Len(requests) = 2
    /\ HasNextLink(served[1])
    /\ Len(served[1].data) = 2
    /\ Len(served[2].data) >= 1
    /\ Len(emitted) = ItemsUpTo(2)
    /\ extra_pulls > 0

\* The value stored under key in a mapping written as key-value pairs, as a
\* set: empty when the key is absent.
ValuesAt(pairs, key) == {pairs[i][2] : i \in {j \in 1..Len(pairs) : pairs[j][1] = key}}

\* C16: every emitted record carries in its meta the page's can_include and
\* parent when the page's meta has them, and neither key when it has not.
C16_MetaCopied ==
    \A i \in 1..Len(emitted) :
        \A key \in {"can_include", "parent"} :
            ValuesAt(emitted[i].record.meta, key)
                = ValuesAt(PageOf(emitted[i]).meta, key)

\* The get in flight, or the last one made, ended in a failure.
GetFailed == pc = "done" /\ result.kind # "dict"

\* C17: when the get for page k fails for good, the generator ends with that
\* very failure: the records of pages 1..k-1 have all been yielded, none of
\* page k or later is, no later request is made, and the generator does not
\* end as exhausted.
C17_FailureEndsIteration ==
    /\ (it_pc = "failed" /\ GetFailed) =>
          /\ it_error = result
          /\ Len(requests) = Len(served) + 1
          /\ Len(emitted) = ItemsUpTo(Len(served))
          /\ \A i \in 1..Len(emitted) : emitted[i].page < Len(requests)
    /\ GetFailed => it_pc \in {"fetching", "failed"}
    /\ it_pc = "exhausted" => it_error = None
    /\ it_pc = "failed" => it_error # None

\* The get for the second page survives one timeout and is then refused
\* with 404: the generator has ended with that PCORequestException after
\* yielding both records of the first page, and further pulls change nothing.
C17_Witness ==
    /\ it_pc = "failed"
    /\ Len(served) = 1
    /\ Len(requests) = 2
    /\ Len(emitted) = 2
    /\ Len(history) = 2
    /\ history[1].out.kind = "Timeout"
    /\ it_error.kind = "PCORequestException"
    /\ it_error.status = 404
    /\ extra_pulls > 0

----------------------------------------------------------------------------
(* Properties of iterate under a consumer that keeps pulling (SpecIterLive). *)

IterEnded == it_pc \in {"exhausted", "failed"}

\* C20: the sequence is finite: when no get fails and the service comes to
\* a page without next, a consumer that keeps pulling reaches the exhausted
\* generator; and an exhausted or failed generator stays as it is, yielding
\* no further record and making no further request.
C20_IterationEnds ==
    /\ ([](it_pc # "failed")) => <>(it_pc = "exhausted")
    /\ [][IterEnded => UNCHANGED <<it_pc, emitted, requests, served, it_error>>]_vars

\* The generator is exhausted after two pages and the consumer has pulled
\* twice more.
C20_Witness ==
    /\ it_pc = "exhausted"
    /\ Len(requests) = 2
    /\ Len(emitted) >= 1
    /\ extra_pulls = 2

----------------------------------------------------------------------------
(* Properties of the two loops together (Spec). *)

\* The attempts before the i-th that make up the same invocation of
\* _do_timeout_managed_request: those after the last 429 response.
SameInvocation(i) ==
    {j \in 1..(i - 1) : \A k \in j..(i - 1) : ~Is429(Out(k))}

\* C21: a response with any status other than 429 leaves the rate-limit loop
\* as it is, after the one invocation of _do_timeout_managed_request that
\* received it, with no sleep and no further attempt: responses with 4xx
\* (other than 429) and 5xx statuses are never retried.
C21_OtherStatusPassesThrough ==
    \A i \in 1..Len(history) :
        (IsResponse(Out(i)) /\ ~Is429(Out(i))) =>
            /\ i = Len(history)
            /\ pc = "done"
            /\ lower = Out(i)
            /\ \A j \in SameInvocation(i) : IsTimeout(Out(j))
            /\ sleeps = HeaderSecondsUpTo(i - 1)
            /\ clock = history[i].at

\* After a 429 that was slept on and a timeout, a 500 response ends the call
\* and is what the loops return.
C21_Witness ==
    /\ pc = "done"
    /\ Len(history) = 3
    /\ Is429(Out(1))
    /\ IsTimeout(Out(2))
    /\ Out(3).status = 500
    /\ lower = Out(3)
    /\ sleeps = <<2>>

----------------------------------------------------------------------------
(* Properties of the iteration's requests (SpecIter). *)

\* The query parameters get receives for the locals it.
QueryFor(it) ==
    << <<"offset", it.offset>>, <<"per_page", it.per_page>> >> \o it.params

\* C22: in an iteration started with offset o and page size p, the j-th get
\* (j = 0, 1, ...) is made with offset o + j*p, with per_page p and with the
\* url and the extra parameters of the first; the offset never decreases and
\* no offset is requested twice.
C22_OffsetAdvancesByPage ==
    /\ it_pc = "created" => (requests = <<>> /\ iter \in IterArgs)
    /\ Len(requests) > 0 => requests[1] \in IterArgs
    /\ \A j \in 1..Len(requests) :
          requests[j] = [requests[1] EXCEPT
                            !.offset = requests[1].offset
                                       + (j - 1) * requests[1].per_page]
    /\ \A j, k \in 1..Len(requests) :
          j < k => requests[j].offset < requests[k].offset
    /\ it_pc = "fetching" =>
          /\ args.entry = "get"
          /\ args.method = "GET"
          /\ args.url = requests[1].url
          /\ args.params = QueryFor(requests[Len(requests)])
          /\ req.params = args.params
          /\ sent # NoRequest => sent.params = args.params

\* The second get of an iteration started at offset 3 with page size 2 is
\* on its way with offset 5.
C22_Witness ==
    /\ it_pc = "fetching"
    /\ Len(requests) = 2
    /\ requests[1].offset = 3
    /\ requests[2].offset = 5
    /\ sent # NoRequest
    /\ sent.params = << <<"offset", 5>>, <<"per_page", 2>>, <<"q", "1">> >>

\* A get call is running.
CallRunning == pc \in {"request", "sleep"} \/ sent # NoRequest

\* C23: the generator is lazy. Before the first pull no request has been
\* made; while the consumer holds a record no call runs and no request for
\* a later page exists; the get for page k+1 is made only once every record
\* of page k has been yielded and the consumer has pulled again; and each
\* pass of the loop makes one get, so the requests are at most one ahead of
\* the pages received.
C23_RequestsOnlyOnPull ==
    /\ it_pc = "created" => (requests = <<>> /\ pc = "idle" /\ history = <<>>)
    /\ it_pc \in {"created", "yielded", "exhausted", "failed"} => ~CallRunning
    /\ it_pc = "yielded" =>
          /\ Len(requests) = Len(served)
          /\ emitted[Len(emitted)].page = Len(served)
          /\ emitted[Len(emitted)].item = cur_index
    /\ Len(requests) <= Len(served) + 1
    /\ Len(requests) = Len(served) + 1 =>
          /\ it_pc \in {"fetching", "failed"}
          /\ Len(emitted) = ItemsUpTo(Len(served))
    /\ CallRunning => (it_pc = "fetching" /\ Len(requests) = Len(served) + 1)

\* The get for the second page is under way, after both records of the
\* first page.
C23_Witness ==
    /\ it_pc = "fetching"
    /\ sent # NoRequest
    /\ Len(requests) = 2
    /\ Len(served) = 1
    /\ Len(served[1].data) = 2
    /\ Len(emitted) = 2

----------------------------------------------------------------------------
(* Properties of concurrent calls (SpecThreads). *)

RECURSIVE SumUpTo(_, _)
SumUpTo(s, n) == IF n = 0 THEN 0 ELSE SumUpTo(s, n - 1) + s[n]

\* Where a call stands that runs alone and has seen the first n of outs.
RECURSIVE LoneCall(_, _)
LoneCall(outs, n) ==
    IF n = 0
    THEN [pc |-> "request", timeout_count |-> 0, sleeps |-> <<>>, lower |-> None]
    ELSE LET prev == LoneCall(outs, n - 1)
             tm == do_timeout_managed_request(
                       outs[n],
                       IF prev.pc = "sleep" THEN 0 ELSE prev.timeout_count,
                       timeout_retries, ThreadUrl)
             rl == do_ratelimit_managed_request(tm.out)
         IN  CASE tm.act = "retry" ->
                    [prev EXCEPT !.pc = "request", !.timeout_count = tm.count]
               [] tm.act = "raise" ->
                    [prev EXCEPT !.pc = "done", !.timeout_count = tm.count,
                                 !.lower = tm.out]
               [] tm.act = "return" /\ rl.act = "sleep" ->
                    [prev EXCEPT !.pc = "sleep", !.timeout_count = tm.count,
                                 !.sleeps = Append(prev.sleeps, rl.secs)]
               [] tm.act = "return" /\ rl.act # "sleep" ->
                    [prev EXCEPT !.pc = "done", !.timeout_count = tm.count,
                                 !.lower = rl.out]

\* Thread t stands where a lone call with its outcomes would stand.
AsIfAlone(t) ==
    LET c == calls[t]
        alone == LoneCall(c.outs, Len(c.outs))
    IN  /\ c.pc = "idle" => c = IdleThread
        /\ c.sleeps = alone.sleeps
        /\ c.lower = alone.lower
        /\ c.pc = "sleep" =>
              /\ alone.pc = "sleep"
              /\ c.timeout_count = alone.timeout_count
              /\ c.clock = SumUpTo(c.sleeps, Len(c.sleeps) - 1)
        /\ c.pc # "sleep" => c.clock = SumUpTo(c.sleeps, Len(c.sleeps))
        /\ (c.pc = "request" /\ alone.pc = "sleep") => c.timeout_count = 0
        /\ (c.pc = "request" /\ alone.pc # "sleep") =>
              /\ alone.pc = "request"
              /\ c.timeout_count = alone.timeout_count
        /\ c.pc = "done" =>
              /\ alone.pc = "done"
              /\ c.result = request_response(alone.lower)

\* C24: calls made concurrently on one client are independent. In every
\* interleaving each call's timeout count, its sleeps, the time it has
\* waited, its number of attempts and its outcome are those of the same call
\* running alone with the same Transport outcomes; only the session is
\* shared.
C24_CallsIndependent ==
    /\ \A t \in Threads : AsIfAlone(t)
    /\ session_uses = Len(calls["t1"].outs) + Len(calls["t2"].outs)

\* Each thread met one timeout, which is the ceiling's worth between them,
\* and one was held up for two seconds by a 429: both calls end with their
\* own 200 response, and only the rate-limited one has waited.
C24_Witness ==
    /\ calls["t1"].pc = "done"
    /\ calls["t2"].pc = "done"
    /\ timeout_retries = 2
    /\ Len(calls["t1"].outs) = 3
    /\ Is429(calls["t1"].outs[1])
    /\ IsTimeout(calls["t1"].outs[2])
    /\ calls["t1"].result.status = 200
    /\ calls["t1"].clock = 2
    /\ Len(calls["t2"].outs) = 2
    /\ IsTimeout(calls["t2"].outs[1])
    /\ calls["t2"].result.status = 200
    /\ calls["t2"].clock = 0

----------------------------------------------------------------------------
(* Further properties of the URL clean-up (SpecUrl). *)

\* C25: for every url argument of a call without upload, relative, already
\* absolute or malformed, the url handed on starts with the configured base,
\* and the base was prefixed exactly when the argument did not start with it.
C25_UrlStartsWithBase ==
    url_pc >= 1 =>
        /\ StartsWith(url_once, api_base)
        /\ StartsWith(url_in, api_base) => url_once = CollapseSlashes(url_in)
        /\ ~StartsWith(url_in, api_base) =>
              url_once = CollapseSlashes(api_base \o url_in)

----------------------------------------------------------------------------
(* Further properties of the two loops together (Spec). *)

\* The Timeout outcomes among the first n attempts.
TimeoutsUpTo(n) == Cardinality({i \in 1..n : IsTimeout(Out(i))})

\* C26: the timeout count belongs to one invocation of
\* _do_timeout_managed_request. Whenever an attempt is due the count is the
\* number of timeouts since the last response, so it is 0 after a 429 and
\* timeouts on either side of a 429 do not add up; PCORequestTimeoutException
\* is raised only when the last timeout_retries attempts all timed out; and
\* a 429 with a usable header keeps the call going however many attempts,
\* and however many timeouts in all, came before.
C26_CountPerInvocation ==
    /\ pc = "request" => timeout_count = TrailingTimeouts
    /\ (pc = "request" /\ Len(history) > 0 /\ Is429(Out(Len(history)))) =>
          timeout_count = 0
    /\ lower.kind = "PCORequestTimeoutException" =>
          /\ timeout_retries >= 1
          /\ Len(history) >= timeout_retries
          /\ \A i \in (Len(history) - timeout_retries + 1)..Len(history) :
                IsTimeout(Out(i))
    /\ (pc = "done" /\ TimeoutsUpTo(Len(history)) >= timeout_retries
          /\ TrailingTimeouts < timeout_retries) =>
          lower.kind # "PCORequestTimeoutException"

\* With timeout_retries = 2 the call times out, is rate limited, times out
\* again and then gets its 200: two timeouts in all, four attempts, and no
\* PCORequestTimeoutException.
C26_Witness ==
    /\ timeout_retries = 2
    /\ pc = "done"
    /\ Len(history) = 4
    /\ IsTimeout(Out(1))
    /\ Is429(Out(2))
    /\ IsTimeout(Out(3))
    /\ lower.status = 200
    /\ timeout_count = 1

\* A 429 response whose Retry-After is missing or is not an integer.
Is429WithoutSeconds(o) ==
    Is429(o) /\ (~o.has_retry_after \/ ~IsIntLiteral(o.retry_after))

\* C27: a 429 response without a Retry-After header, or with one that is not
\* an integer, is neither slept on nor retried: it is the last attempt of
\* its call, the header lookup (KeyError) or int() (ValueError) ends the
\* rate-limit loop, and the caller receives PCOUnexpectedRequestException.
C27_UnusableRetryAfterEndsCall ==
    \A i \in 1..Len(history) :
        Is429WithoutSeconds(Out(i)) =>
            /\ i = Len(history)
            /\ pc = "done"
            /\ sleeps = HeaderSecondsUpTo(i - 1)
            /\ clock = history[i].at
            /\ lower.kind = (IF Out(i).has_retry_after THEN "ValueError"
                             ELSE "KeyError")
            /\ result = Raised("PCOUnexpectedRequestException", lower.msg)

\* After one 429 that was slept on, a 429 with Retry-After: x ends the call
\* of request_response with PCOUnexpectedRequestException.
C27_Witness ==
    /\ entry = "request_response"
    /\ pc = "done"
    /\ Len(history) = 2
    /\ Is429(Out(1))
    /\ Is429(Out(2))
    /\ Out(2).retry_after = <<"x">>
    /\ sleeps = <<2>>
    /\ lower.kind = "ValueError"
    /\ result.kind = "PCOUnexpectedRequestException"

----------------------------------------------------------------------------
(* Further properties of iterate (SpecIter). *)

\* C28: whether another page is fetched depends on next in the page's links
\* alone. A page with next is followed by a request for the next offset
\* even when its data is empty, in which case it yields no record; a page
\* without next is the last one requested, items or not.
C28_NextLinkAloneDecides ==
    /\ \A j \in 1..Len(served) :
          /\ ~HasNextLink(served[j]) => Len(requests) = j
          /\ (HasNextLink(served[j]) /\ served[j].data = <<>>) =>
                /\ Len(requests) > j
                /\ requests[j + 1].offset
                     = requests[j].offset + requests[j].per_page
                /\ \A i \in 1..Len(emitted) : emitted[i].page # j
          /\ (HasNextLink(served[j]) /\ j = Len(requests)) =>
                (it_pc = "yielded" /\ served[j].data # <<>>)
    /\ it_pc = "exhausted" => ~HasNextLink(served[Len(served)])

\* An empty first page with next was followed by the request for the next
\* offset, and the second page, with items and without next, was the last.
C28_Witness ==
    /\ it_pc = "exhausted"
    /\ Len(served) = 2
    /\ Len(requests) = 2
    /\ served[1].data = <<>>
    /\ HasNextLink(served[1])
    /\ Len(served[2].data) = 2
    /\ Len(emitted) = 2
    /\ requests[2].offset = requests[1].offset + requests[1].per_page

\* How often x occurs in seq.
Occurrences(seq, x) == Cardinality({i \in 1..Len(seq) : seq[i] = x})

\* The references of item cur (relationship and position) that name the type
\* and id of x.
RefsNaming(cur, x) ==
    IF ~cur.has_relationships THEN {}
    ELSE UNION {{<<r, k>> :
                    k \in {m \in 1..Len(cur.relationships[r].refs) :
                             /\ cur.relationships[r].refs[m].type = x.type
                             /\ cur.relationships[r].refs[m].id = x.id}} :
                r \in {q \in 1..Len(cur.relationships) :
                         cur.relationships[q].shape # "null"}}

\* C29: include resolution appends one entry for every pair of a reference
\* and an included object it matches, and removes no duplicates: an object
\* occurs in the record's included once per reference that names it, times
\* its occurrences in the page's included; a reference that matches nothing
\* adds nothing and the record is yielded all the same; the page and the
\* item stay as they were received.
C29_NoDeduplication ==
    /\ \A i \in 1..Len(emitted) :
          LET inc == emitted[i].record.included
              pg == PageOf(emitted[i])
              cur == ItemOf(emitted[i])
          IN  /\ \A n \in 1..Len(pg.included) :
                    Occurrences(inc, pg.included[n])
                      = Cardinality(RefsNaming(cur, pg.included[n]))
                        * Occurrences(pg.included, pg.included[n])
              /\ \A m \in 1..Len(inc) : Occurrences(pg.included, inc[m]) > 0
              /\ emitted[i].record.data = cur
    /\ it_pc = "yielded" =>
          /\ response = served[Len(served)]
          /\ response \in IterPages
          /\ emitted[Len(emitted)].record.data = response.data[cur_index]

\* The item names (A, 1) in two relationships and (B, 1) twice in one list,
\* the page includes two objects that are (A, 1), and one reference matches
\* nothing: six entries, none dropped.
C29_Witness ==
    /\ it_pc = "yielded"
    /\ emitted[Len(emitted)].record.data = ItemZ
    /\ emitted[Len(emitted)].record.included
         = <<ObjA1, ObjA1Twin, ObjA1, ObjA1Twin, ObjB1, ObjB1>>
    /\ response.included = IncludedRepeated

====
